---- MODULE Spec2Model ----
(***************************************************************************)
(* RawTransaction::sign of ethereum-tx-sign (src/src/raw_transaction.rs):  *)
(* RLP encoding of the six transaction fields, the EIP-155 signing hash,   *)
(* the recoverable ECDSA signature with its v byte, the stripping of the   *)
(* leading zero bytes of r and s, and the final signed RLP list.           *)
(*                                                                         *)
(* One call of sign is a run of the steps                                  *)
(*   Call -> Hash -> EcdsaSign -> StripR -> StripS -> BeginList ->         *)
(*   EncodeFields -> AppendSignature -> CompleteList -> Return             *)
(* and a Rust panic ends the call at the step that raises it.              *)
(*                                                                         *)
(* Bytes are the integers 0..255 and byte strings are sequences of them.   *)
(* A U256 is a natural number; the model's values stay far below 2^31.     *)
(* keccak256 is an ideal (collision-free) hash: the digest is a 32-byte    *)
(* value that names its preimage. sign_recoverable is an opaque primitive: *)
(* for a given (message, key) it returns a recovery id in {0, 1} and two   *)
(* 32-byte components drawn from SigComponents, and it returns the same    *)
(* triple whenever it is asked again for a (message, key) it has answered  *)
(* in the remembered call (RFC 6979 nonces).                               *)
(***************************************************************************)
EXTENDS Integers, Sequences, FiniteSets, TLC

\* ---------------------------------------------------------------- sizes

\* u8: the type of chain_id and of the v byte.
U8Modulus == 256
\* H160: a 20-byte address.
AddressLen == 20
\* H256: the 32-byte private key; also the length of a keccak256 digest.
KeyLen == 32
\* sig_bytes[0..32] and sig_bytes[32..64]: one signature component.
ComponentLen == 32
\* The EIP-155 offset added to the recovery id.
VOffset == 35

\* The longest `data` the model passes to sign.
MaxDataLen == 1

Byte == 0 .. (U8Modulus - 1)

\* ---------------------------------------------------------------- bytes

Repeat(b, n) == [i \in 1 .. n |-> b]

RECURSIVE BytesBE(_)
\* The minimal big-endian bytes of a natural number; zero has none.
BytesBE(n) ==
  IF n = 0 THEN <<>> ELSE BytesBE(n \div U8Modulus) \o <<n % U8Modulus>>

\* U256 as Encodable: the 32-byte big-endian buffer without its leading
\* empty bytes.
U256Bytes(n) == BytesBE(n)

\* ------------------------------------------------------------------ RLP

\* Encoder::encode_value: one byte-string item.
EncodeValue(bytes) ==
  IF Len(bytes) = 0 THEN <<128>>
  ELSE IF Len(bytes) = 1 /\ bytes[1] < 128 THEN bytes
  ELSE IF Len(bytes) <= 55 THEN <<128 + Len(bytes)>> \o bytes
  ELSE <<183 + Len(BytesBE(Len(bytes)))>> \o BytesBE(Len(bytes)) \o bytes

\* RlpStream::new
RlpStreamNew ==
  [buffer |-> <<>>, unfinished_lists |-> <<>>, finished_list |-> FALSE]

\* RlpStream::begin_unbounded_list: one byte is reserved for the header and
\* the position after it is remembered.
BeginUnboundedList(s) ==
  [s EXCEPT !.finished_list = FALSE,
            !.buffer = Append(@, 0),
            !.unfinished_lists = Append(@, Len(s.buffer) + 1)]

\* RlpStream::append of a byte-string value (Vec<u8>, H160, U256 bytes). In an
\* unbounded list note_appended leaves the list open.
AppendValue(s, bytes) ==
  [s EXCEPT !.buffer = @ \o EncodeValue(bytes),
            !.finished_list = (s.unfinished_lists = <<>>)]

\* Encoder::insert_list_payload: the reserved byte at pos becomes the header;
\* a payload longer than 55 bytes gets its length inserted after it.
InsertListPayload(buffer, len, pos) ==
  IF len <= 55
    THEN [buffer EXCEPT ![pos] = 192 + len]
    ELSE SubSeq(buffer, 1, pos - 1)
           \o <<247 + Len(BytesBE(len))>> \o BytesBE(len)
           \o SubSeq(buffer, pos + 1, Len(buffer))

\* RlpStream::complete_unbounded_list (called with one open list).
CompleteUnboundedList(s) ==
  LET position == s.unfinished_lists[Len(s.unfinished_lists)]
      len      == Len(s.buffer) - position
      rest     == SubSeq(s.unfinished_lists, 1, Len(s.unfinished_lists) - 1)
  IN  [buffer |-> InsertListPayload(s.buffer, len, position),
       unfinished_lists |-> rest,
       finished_list |-> (rest = <<>>)]

\* RlpStream::is_finished, the condition under which out() returns the buffer.
IsFinished(s) == s.unfinished_lists = <<>>

\* ------------------------------------------------------- RawTransaction

\* Option<H160>: None is the empty sequence, Some(a) the one-element one.
None == <<>>
Some(a) == <<a>>

\* encode with gas and gas_price in each other's place.
encode_gas_first(self, s) ==
  LET s1 == AppendValue(s, U256Bytes(self.nonce))
      s2 == AppendValue(s1, U256Bytes(self.gas))
      s3 == AppendValue(s2, U256Bytes(self.gas_price))
      s4 == IF self.to # None
              THEN AppendValue(s3, self.to[1])
              ELSE AppendValue(s3, <<>>)
      s5 == AppendValue(s4, U256Bytes(self.value))
  IN  AppendValue(s5, self.data)

\* encode with an absent recipient written as H160::default().
encode_default_address(self, s) ==
  LET s1 == AppendValue(s, U256Bytes(self.nonce))
      s2 == AppendValue(s1, U256Bytes(self.gas_price))
      s3 == AppendValue(s2, U256Bytes(self.gas))
      s4 == IF self.to # None
              THEN AppendValue(s3, self.to[1])
              ELSE AppendValue(s3, [i \in 1 .. AddressLen |-> 0])
      s5 == AppendValue(s4, U256Bytes(self.value))
  IN  AppendValue(s5, self.data)

\* RawTransaction::encode: the six fields, in this order.
encode(self, s) ==
  LET s1 == AppendValue(s, U256Bytes(self.nonce))
      s2 == AppendValue(s1, U256Bytes(self.gas_price))
      s3 == AppendValue(s2, U256Bytes(self.gas))
      s4 == IF self.to # None
              THEN AppendValue(s3, self.to[1])
              ELSE AppendValue(s3, <<>>)
      s5 == AppendValue(s4, U256Bytes(self.value))
  IN  AppendValue(s5, self.data)

\* hash with the value field left out of the digested list.
hash_stream_without_value(self, chain_id) ==
  LET h0 == BeginUnboundedList(RlpStreamNew)
      h1 == encode([self EXCEPT !.value = 0], h0)
      h2 == AppendValue(h1, <<chain_id>>)
      h3 == AppendValue(h2, U256Bytes(0))
      h4 == AppendValue(h3, U256Bytes(0))
  IN  CompleteUnboundedList(h4)

\* The stream RawTransaction::hash builds: the six fields, then vec![chain_id]
\* (a one-byte Vec<u8>), then U256::zero() twice.
hash_stream(self, chain_id) ==
  LET h0 == BeginUnboundedList(RlpStreamNew)
      h1 == encode(self, h0)
      h2 == AppendValue(h1, <<chain_id>>)
      h3 == AppendValue(h2, U256Bytes(0))
      h4 == AppendValue(h3, U256Bytes(0))
  IN  CompleteUnboundedList(h4)

\* keccak256_hash: an ideal hash, 32 bytes long, one digest per preimage.
keccak256_hash(bytes) == [len |-> KeyLen, preimage |-> bytes]

NoHash == [len |-> 0, preimage |-> <<>>]

\* --------------------------------------------------------------- signing

\* The order of the secp256k1 group, big-endian.
CurveOrder ==
  << 255, 255, 255, 255, 255, 255, 255, 255, 255, 255, 255, 255, 255, 255, 255, 254,
     186, 174, 220, 230, 175,  72, 160,  59, 191, 210,  94, 140, 208,  54,  65,  65 >>

RECURSIVE LessBE(_, _)
\* a < b for two big-endian byte strings of the same length.
LessBE(a, b) ==
  IF a = <<>> THEN FALSE
  ELSE IF a[1] # b[1] THEN a[1] < b[1]
  ELSE LessBE(Tail(a), Tail(b))

\* A key check that looks at the length only.
AnySecretKey(key) == Len(key) = KeyLen

\* SecretKey::from_slice: 32 bytes, not zero, below the group order.
ValidSecretKey(key) ==
  /\ Len(key) = KeyLen
  /\ key # Repeat(0, KeyLen)
  /\ LessBE(key, CurveOrder)

\* Message::from_slice: the digest must be 32 bytes long.
ValidMessage(h) == h.len = KeyLen

\* v.to_i32() as u8 + chain_id * 2 + 35 in u8 arithmetic, left to right: the
\* value modulo 2^8, and whether the product or one of the sums overflowed.
ecdsa_v(recid, chain_id) ==
  LET product == chain_id * 2
      sum1    == recid + (product % U8Modulus)
      sum2    == (sum1 % U8Modulus) + VOffset
  IN  [overflow |-> (product >= U8Modulus \/ sum1 >= U8Modulus \/ sum2 >= U8Modulus),
       val      |-> sum2 % U8Modulus]

\* if X[0] == 0 { X.remove(0); }: at most one byte removed.
strip_once(X) ==
  IF X = <<>> THEN [panicked |-> TRUE, bytes |-> <<>>]
  ELSE IF X[1] = 0 THEN [panicked |-> FALSE, bytes |-> Tail(X)]
  ELSE [panicked |-> FALSE, bytes |-> X]

RECURSIVE strip(_)
\* while X[0] == 0 { X.remove(0); }: the bytes left, or the index panic when
\* the loop reads X[0] of an empty vector.
strip(X) ==
  IF X = <<>> THEN [panicked |-> TRUE, bytes |-> <<>>]
  ELSE IF X[1] = 0 THEN strip(Tail(X))
  ELSE [panicked |-> FALSE, bytes |-> X]

\* ---------------------------------------------------------------- inputs

Tx(nonce, to, value, gas_price, gas, data) ==
  [nonce |-> nonce, to |-> to, value |-> value,
   gas_price |-> gas_price, gas |-> gas, data |-> data]

\* RawTransaction::default()
DefaultTx == Tx(0, None, 0, 0, 0, <<>>)

ZeroAddress == Repeat(0, AddressLen)
Address35   == Repeat(53, AddressLen)

DataBytes == {0, 128}
RECURSIVE DataOfLen(_)
DataOfLen(n) ==
  IF n = 0 THEN {<<>>}
  ELSE {Append(d, b) : d \in DataOfLen(n - 1), b \in DataBytes}
Datas == UNION {DataOfLen(n) : n \in 0 .. MaxDataLen}

Transactions ==
  {Tx(nonce, to, 1000, 128, 21000, data) :
     nonce \in {0, 9}, to \in {None, Some(ZeroAddress), Some(Address35)},
     data \in Datas}

ZeroKey     == Repeat(0, KeyLen)
OneKey      == [i \in 1 .. KeyLen |-> IF i = KeyLen THEN 1 ELSE 0]
OrderMinus1 == [CurveOrder EXCEPT ![KeyLen] = @ - 1]
PrivateKeys == {ZeroKey, OneKey, OrderMinus1, CurveOrder}

ChainIds == {0, 1, 3, 110, 127, 128, 255}

\* The transactions, keys and chain ids of the repeated calls.
FixtureTransactions ==
  {Tx(9, Some(Address35), 1000, 128, 21000, <<>>), Tx(0, None, 0, 1, 21000, <<128>>)}
FixtureKeys == {ZeroKey, OneKey}
FixtureChainIds == {0, 3, 128}

\* A 32-byte component with `zeros` leading zero bytes; the bytes after them
\* hold inner zeros too.
Component(zeros) ==
  [i \in 1 .. ComponentLen |->
     IF i <= zeros THEN 0
     ELSE IF i = zeros + 1 THEN (IF zeros = ComponentLen - 1 THEN 1 ELSE 200)
     ELSE IF i % 4 = 0 THEN 0 ELSE i]

\* The values of sig_bytes[0..32] and sig_bytes[32..64] that sign is run on.
\* The slices are plain 32-byte vectors, so the all-zero one is among them,
\* although ECDSA over secp256k1 itself yields r and s in [1, order - 1].
SigComponents == {Component(z) : z \in {0, 2, ComponentLen - 1, ComponentLen}}

NoCompact == [v |-> 0, sig_bytes |-> <<>>]
NoSig == [v |-> <<>>, r |-> <<>>, s |-> <<>>]

\* ----------------------------------------------------------------- state

VARIABLES
  overflow_checks,  \* the build: TRUE panics on u8 overflow (debug), FALSE wraps
  pc,               \* where the call of sign stands
  caller_tx,        \* the caller's transaction, as it was when sign was called
  self,             \* &self of sign
  private_key,      \* the H256 argument
  chain_id,         \* the u8 argument
  msg_hash,         \* sign's `hash`
  compact,          \* ecdsa_sign's (v, sig_bytes)
  sig,              \* the EcdsaSig
  R, S,             \* sign's locals
  tx,               \* sign's RlpStream
  out,              \* the bytes sign returned
  panic,            \* the panic that ended the call, "" when none
  memo              \* one earlier call: its arguments, signature and outcome

vars == << overflow_checks, pc, caller_tx, self, private_key, chain_id, msg_hash,
           compact, sig, R, S, tx, out, panic, memo >>

NoMemo ==
  [set |-> FALSE, self |-> DefaultTx, private_key |-> ZeroKey, chain_id |-> 0,
   msg_hash |-> NoHash, compact |-> NoCompact, sig |-> NoSig,
   out |-> <<>>, panic |-> ""]

locals == << msg_hash, compact, sig, R, S, tx >>
args == << caller_tx, self, private_key, chain_id >>

Init ==
  /\ overflow_checks \in BOOLEAN
  /\ pc = "idle"
  /\ caller_tx = DefaultTx
  /\ self = DefaultTx
  /\ private_key = ZeroKey
  /\ chain_id = 0
  /\ msg_hash = NoHash
  /\ compact = NoCompact
  /\ sig = NoSig
  /\ R = <<>>
  /\ S = <<>>
  /\ tx = RlpStreamNew
  /\ out = <<>>
  /\ panic = ""
  /\ memo = NoMemo

\* The caller calls tx.sign(&private_key, &chain_id).
Call(txs, keys, chains) ==
  /\ pc = "idle"
  /\ \E t \in txs, k \in keys, c \in chains :
       /\ caller_tx' = t
       /\ self' = t
       /\ private_key' = k
       /\ chain_id' = c
  /\ pc' = "hash"
  /\ UNCHANGED << overflow_checks, locals, out, panic, memo >>

\* let hash = self.hash(*chain_id);
Hash ==
  /\ pc = "hash"
  /\ msg_hash' = keccak256_hash(hash_stream(self, chain_id).buffer)
  /\ pc' = "ecdsa"
  /\ UNCHANGED << overflow_checks, args, compact, sig, R, S, tx, out, panic, memo >>

\* What the primitive may answer for (msg_hash, private_key).
Answers ==
  IF memo.set /\ memo.compact # NoCompact
       /\ memo.msg_hash = msg_hash /\ memo.private_key = private_key
    THEN {memo.compact}
    ELSE {[v |-> recid, sig_bytes |-> r \o s] :
            recid \in {0, 1}, r \in SigComponents, s \in SigComponents}

\* let sig = ecdsa_sign(&hash, &private_key.0, &chain_id);
EcdsaSign ==
  /\ pc = "ecdsa"
  /\ IF ~ValidMessage(msg_hash)
       THEN /\ pc' = "panicked"
            /\ panic' = "InvalidMessage"
            /\ UNCHANGED << compact, sig >>
     ELSE IF ~ValidSecretKey(private_key)
       THEN /\ pc' = "panicked"
            /\ panic' = "InvalidSecretKey"
            /\ UNCHANGED << compact, sig >>
     ELSE \E a \in Answers :
            /\ compact' = a
            /\ LET v == ecdsa_v(a.v, chain_id) IN
                 IF v.overflow /\ overflow_checks
                   THEN /\ pc' = "panicked"
                        /\ panic' = "arithmetic overflow"
                        /\ sig' = sig
                   ELSE /\ pc' = "stripR"
                        /\ panic' = panic
                        /\ sig' = [v |-> <<v.val>>,
                                   r |-> SubSeq(a.sig_bytes, 1, ComponentLen),
                                   s |-> SubSeq(a.sig_bytes, ComponentLen + 1,
                                                2 * ComponentLen)]
  /\ UNCHANGED << overflow_checks, args, msg_hash, R, S, tx, out, memo >>

\* let mut R = sig.r; while R[0] == 0 { R.remove(0); }
StripR ==
  /\ pc = "stripR"
  /\ LET res == strip(sig.r) IN
       IF res.panicked
         THEN /\ pc' = "panicked"
              /\ panic' = "index out of bounds"
              /\ R' = <<>>
         ELSE /\ pc' = "stripS"
              /\ panic' = panic
              /\ R' = res.bytes
  /\ UNCHANGED << overflow_checks, args, msg_hash, compact, sig, S, tx, out, memo >>

\* let mut S = sig.s; while S[0] == 0 { S.remove(0); }
StripS ==
  /\ pc = "stripS"
  /\ LET res == strip(sig.s) IN
       IF res.panicked
         THEN /\ pc' = "panicked"
              /\ panic' = "index out of bounds"
              /\ S' = <<>>
         ELSE /\ pc' = "begin"
              /\ panic' = panic
              /\ S' = res.bytes
  /\ UNCHANGED << overflow_checks, args, msg_hash, compact, sig, R, tx, out, memo >>

\* let mut tx = RlpStream::new(); tx.begin_unbounded_list();
BeginList ==
  /\ pc = "begin"
  /\ tx' = BeginUnboundedList(RlpStreamNew)
  /\ pc' = "encode"
  /\ UNCHANGED << overflow_checks, args, msg_hash, compact, sig, R, S, out, panic, memo >>

\* An encode step that also uses up the nonce of the transaction.
EncodeFieldsTakeNonce ==
  /\ pc = "encode"
  /\ tx' = encode(self, tx)
  /\ self' = [self EXCEPT !.nonce = @ + 1]
  /\ pc' = "append"
  /\ UNCHANGED << overflow_checks, caller_tx, private_key, chain_id, msg_hash,
                  compact, sig, R, S, out, panic, memo >>

\* self.encode(&mut tx);
EncodeFields ==
  /\ pc = "encode"
  /\ tx' = encode(self, tx)
  /\ pc' = "append"
  /\ UNCHANGED << overflow_checks, args, msg_hash, compact, sig, R, S, out, panic, memo >>

\* The three appends of sign, as one stream operation.
append_signature(s, v, r, s_) ==
  AppendValue(AppendValue(AppendValue(s, v), r), s_)

\* tx.append(&sig.v); tx.append(&R); tx.append(&S);
AppendSignature ==
  /\ pc = "append"
  /\ tx' = append_signature(tx, sig.v, R, S)
  /\ pc' = "complete"
  /\ UNCHANGED << overflow_checks, args, msg_hash, compact, sig, R, S, out, panic, memo >>

\* tx.complete_unbounded_list(); tx.out()
CompleteList ==
  /\ pc = "complete"
  /\ LET done == CompleteUnboundedList(tx) IN
       /\ tx' = done
       /\ IF IsFinished(done)
            THEN /\ out' = done.buffer
                 /\ pc' = "done"
                 /\ panic' = panic
            ELSE /\ out' = out
                 /\ pc' = "panicked"
                 /\ panic' = "unfinished list"
  /\ UNCHANGED << overflow_checks, args, msg_hash, compact, sig, R, S, memo >>

Ended == pc \in {"done", "panicked"}

\* The call is over: its arguments, its locals and its outcome are dropped.
DropCall ==
  /\ pc' = "idle"
  /\ caller_tx' = DefaultTx
  /\ self' = DefaultTx
  /\ private_key' = ZeroKey
  /\ chain_id' = 0
  /\ msg_hash' = NoHash
  /\ compact' = NoCompact
  /\ sig' = NoSig
  /\ R' = <<>>
  /\ S' = <<>>
  /\ tx' = RlpStreamNew
  /\ out' = <<>>
  /\ panic' = ""

Return ==
  /\ Ended
  /\ DropCall
  /\ UNCHANGED << overflow_checks, memo >>

\* As Return, and the caller remembers this call to compare later ones with.
ReturnRemember ==
  /\ Ended
  /\ ~memo.set
  /\ memo' = [set |-> TRUE, self |-> caller_tx, private_key |-> private_key,
              chain_id |-> chain_id, msg_hash |-> msg_hash, compact |-> compact,
              sig |-> sig, out |-> out, panic |-> panic]
  /\ DropCall
  /\ UNCHANGED overflow_checks

Steps ==
  \/ Hash
  \/ EcdsaSign
  \/ StripR
  \/ StripS
  \/ BeginList
  \/ EncodeFields
  \/ AppendSignature
  \/ CompleteList

\* Single calls over the wide input sets.
Next ==
  \/ Call(Transactions, PrivateKeys, ChainIds)
  \/ Steps
  \/ Return

Spec == Init /\ [][Next]_vars

\* Repeated calls over the fixture inputs, one of them remembered.
NextRepeat ==
  \/ Call(FixtureTransactions, FixtureKeys, FixtureChainIds)
  \/ Steps
  \/ Return
  \/ ReturnRemember

SpecRepeat == Init /\ [][NextRepeat]_vars

\* ------------------------------------------------------------- decoding
\* An RLP reader, used to state what the bytes hold.

RECURSIVE BEValue(_)
\* The integer a big-endian byte string denotes.
BEValue(b) ==
  IF b = <<>> THEN 0
  ELSE BEValue(SubSeq(b, 1, Len(b) - 1)) * U8Modulus + b[Len(b)]

Malformed == [ok |-> FALSE, items |-> <<>>]

\* The header of the item that starts b: the bytes to skip and the length of
\* the item; a length beyond b for what is no byte-string item.
ItemHeader(b) ==
  LET h == b[1] IN
    IF h < 128 THEN [skip |-> 0, len |-> 1]
    ELSE IF h <= 183 THEN [skip |-> 1, len |-> h - 128]
    ELSE IF h <= 191 /\ 1 + (h - 183) <= Len(b)
      THEN [skip |-> 1 + (h - 183), len |-> BEValue(SubSeq(b, 2, 1 + (h - 183)))]
    ELSE [skip |-> 0, len |-> Len(b) + 1]

RECURSIVE DecodeItems(_)
\* The byte-string items a list payload is the concatenation of.
DecodeItems(b) ==
  IF b = <<>> THEN [ok |-> TRUE, items |-> <<>>]
  ELSE LET hdr == ItemHeader(b) IN
    IF hdr.skip + hdr.len > Len(b) THEN Malformed
    ELSE LET item == SubSeq(b, hdr.skip + 1, hdr.skip + hdr.len)
             rest == DecodeItems(SubSeq(b, hdr.skip + hdr.len + 1, Len(b)))
         IN  IF ~rest.ok \/ (hdr.skip = 1 /\ hdr.len = 1 /\ item[1] < 128)
               THEN Malformed
               ELSE [ok |-> TRUE, items |-> <<item>> \o rest.items]

\* The items of bytes that are exactly one RLP list.
DecodeList(b) ==
  IF b = <<>> \/ b[1] < 192 THEN Malformed
  ELSE IF b[1] <= 247
    THEN IF Len(b) - 1 = b[1] - 192 THEN DecodeItems(Tail(b)) ELSE Malformed
  ELSE LET n == b[1] - 247 IN
    IF Len(b) < 1 + n THEN Malformed
    ELSE LET len == BEValue(SubSeq(b, 2, 1 + n)) IN
      IF len > 55 /\ Len(b) - 1 - n = len
        THEN DecodeItems(SubSeq(b, 2 + n, Len(b)))
        ELSE Malformed

\* item is the canonical unsigned-integer item of n: minimal big-endian, the
\* empty string for zero.
IsUint(item, n) == BEValue(item) = n /\ (item = <<>> \/ item[1] # 0)

\* The first six items are the fields of the caller's transaction.
FieldsOf(items, t) ==
  /\ Len(items) >= 6
  /\ IsUint(items[1], t.nonce)
  /\ IsUint(items[2], t.gas_price)
  /\ IsUint(items[3], t.gas)
  /\ items[4] = (IF t.to = None THEN <<>> ELSE t.to[1])
  /\ IsUint(items[5], t.value)
  /\ items[6] = t.data

Hashed == msg_hash # NoHash
Signed == compact # NoCompact
ZeroComponent == [i \in 1 .. ComponentLen |-> 0]
ComponentR == SubSeq(compact.sig_bytes, 1, ComponentLen)
ComponentS == SubSeq(compact.sig_bytes, ComponentLen + 1, 2 * ComponentLen)
InvalidKey(key) == key = ZeroKey \/ ~LessBE(key, CurveOrder)

\* ---------------------------------------------------------------- claims

\* C1: the bytes sign returns are one RLP list of exactly the nine items
\* nonce, gasPrice, gas, to-or-empty, value, data, v, r, s, in this order, and
\* sign's stream carries a list header only once sign is done: until then its
\* first byte is the reserved one.
C1_SignedListOfNine ==
  /\ pc = "done" =>
       LET d == DecodeList(out) IN
         /\ d.ok
         /\ Len(d.items) = 9
         /\ FieldsOf(d.items, caller_tx)
         /\ d.items[7] = sig.v
         /\ d.items[8] = R
         /\ d.items[9] = S
         /\ IsFinished(tx)
  /\ pc \in {"encode", "append", "complete"} =>
       /\ ~IsFinished(tx)
       /\ tx.buffer[1] = 0

\* C1 witness: sign returned a long list for a transaction with a recipient
\* and data.
C1_Witness ==
  /\ pc = "done"
  /\ caller_tx.to # None
  /\ caller_tx.data # <<>>
  /\ caller_tx.nonce # 0
  /\ out[1] > 247

\* C2: the preimage hash() digests is the list of the six fields, then the
\* chain id as a canonical unsigned integer (zero as the empty string), then
\* two empty strings.
C2_HashPreimage ==
  Hashed =>
    LET d == DecodeList(msg_hash.preimage) IN
      /\ d.ok
      /\ Len(d.items) = 9
      /\ FieldsOf(d.items, caller_tx)
      /\ IsUint(d.items[7], chain_id)
      /\ d.items[8] = <<>>
      /\ d.items[9] = <<>>

\* C3: once ecdsa_sign has its signature, the call has not aborted and the v
\* item is the integer recoveryId + chainId*2 + 35.
C3_VIsRecoveryPlusChain ==
  Signed =>
    /\ panic # "arithmetic overflow"
    /\ sig.v = <<compact.v + chain_id * 2 + VOffset>>

\* C4: with a private key that is zero or not below the group order, the call
\* ends in the invalid-key failure, with no output bytes, no signature and no
\* stream.
C4_InvalidKeyFails ==
  (InvalidKey(private_key) /\ pc \notin {"idle", "hash", "ecdsa"}) =>
    /\ pc = "panicked"
    /\ panic = "InvalidSecretKey"
    /\ out = <<>>
    /\ sig = NoSig
    /\ ~Signed
    /\ tx = RlpStreamNew

\* C4 witness: the call with the all-zero key has ended.
C4_Witness ==
  /\ private_key = ZeroKey
  /\ pc = "panicked"
  /\ Hashed

\* item is the 32-byte component without leading zero bytes.
MinimalOf(item, component) ==
  /\ Len(item) <= ComponentLen
  /\ (item = <<>> \/ item[1] # 0)
  /\ [i \in 1 .. (ComponentLen - Len(item)) |-> 0] \o item = component
  /\ (item = <<>> => component = ZeroComponent)

\* C5: in the bytes sign returns, the r item and the s item have no leading
\* zero byte, denote the integers of the primitive's two 32-byte components,
\* and are empty only for a zero component.
C5_MinimalRS ==
  pc = "done" =>
    LET d == DecodeList(out) IN
      /\ d.ok
      /\ Len(d.items) = 9
      /\ MinimalOf(d.items[8], ComponentR)
      /\ MinimalOf(d.items[9], ComponentS)

\* C5 witness: sign returned a signature whose two components both start with
\* more than one zero byte.
C5_Witness ==
  /\ pc = "done"
  /\ ComponentR[1] = 0 /\ ComponentR[2] = 0
  /\ ComponentS[1] = 0 /\ ComponentS[2] = 0
  /\ Len(R) < ComponentLen - 1
  /\ Len(S) = 1

C7_ChainIdsGiveDifferentV ==
  ( /\ memo.set
    /\ memo.out # <<>>
    /\ pc = "done"
    /\ memo.self = caller_tx
    /\ memo.private_key = private_key
    /\ memo.chain_id # chain_id ) => memo.sig.v # sig.v

\* The fourth item is the recipient: empty when absent, else its 20 bytes.
RecipientItem(d) ==
  /\ d.ok
  /\ Len(d.items) = 9
  /\ caller_tx.to = None => d.items[4] = <<>>
  /\ caller_tx.to # None =>
       (Len(d.items[4]) = AddressLen /\ d.items[4] = caller_tx.to[1])

\* C8: in the hashed preimage and in the signed output, the fourth item is the
\* empty string when `to` is absent and the 20 address bytes when it is present.
C8_RecipientItem ==
  /\ Hashed => RecipientItem(DecodeList(msg_hash.preimage))
  /\ pc = "done" => RecipientItem(DecodeList(out))

\* C8 witness: sign returned for a contract creation.
C8_Witness ==
  /\ pc = "done"
  /\ caller_tx.to = None
  /\ Hashed

\* The call at hand has the arguments of the remembered one.
SameCall ==
  /\ memo.set
  /\ memo.self = caller_tx
  /\ memo.private_key = private_key
  /\ memo.chain_id = chain_id

C10_SignedFieldsAreHashedFields ==
  pc = "done" =>
    LET p == DecodeList(msg_hash.preimage)
        o == DecodeList(out)
    IN  /\ p.ok /\ o.ok
        /\ Len(p.items) = 9 /\ Len(o.items) = 9
        /\ SubSeq(o.items, 1, 6) = SubSeq(p.items, 1, 6)
        /\ BEValue(p.items[7]) = chain_id
        /\ p.items[8] = <<>> /\ p.items[9] = <<>>
        /\ SubSeq(o.items, 7, 9) = <<sig.v, R, S>>

\* C10 witness: sign returned for a transaction whose six fields are all
\* non-empty items.
C10_Witness ==
  /\ pc = "done"
  /\ Hashed
  /\ caller_tx.nonce # 0
  /\ caller_tx.to # None
  /\ caller_tx.data # <<>>
  /\ caller_tx.value # 0

====
